---- MODULE Spec2Model ----
(***************************************************************************)
(* Model of the vmj runtime: the register VM (program builder, VM          *)
(* interpreter, x86-64 JIT backend with its executable region and the      *)
(* native code it produces) from src/main.cpp, and the tree interpreter    *)
(* from src/ast.h with the example program of src/main_ast.cpp.            *)
(*                                                                         *)
(* A VM value (u64) is a sequence of 8 bytes, least significant first, so  *)
(* that the full 64-bit width is kept.  A block reference (BasicBlock&)    *)
(* is the 1-based index of the block in Program::blocks; blocks are never  *)
(* removed, so the index is a stable identity.                             *)
(***************************************************************************)
EXTENDS Integers, Sequences, FiniteSets, TLC

(***************************************************************************)
(* Bounds of the model.                                                    *)
(***************************************************************************)
MaxBlocks == 2         \* blocks a built program may have
MaxInstructions == 2   \* instructions a built program may have in total
MaxSteps == 8          \* step bound of one interpreter run
MaxJitRuns == 1        \* calls of VM::jit on a program after it was built
MaxCompiles == 2       \* calls of Jit::compile on a program that is still appended to
MaxLoopBound == 5      \* largest upper bound N of the counting loop
MaxAstCalls == 2       \* calls of AstInterpreter::interpret on one interpreter
MaxFibN == 20          \* largest n of the Fibonacci function
MaxWhileIterations == 32  \* iterations after which a while loop is given up
MaxLongProgram == 133  \* LessThan instructions of the longest straight-line program
MaxFlowInstructions == 4  \* instructions of a three-block control-flow program

(***************************************************************************)
(* Program constants.                                                      *)
(***************************************************************************)
NumRegisters == 8      \* vm.registers.resize(8)
NumLocals == 8         \* vm.locals.resize(8)
RegionSize == 4096     \* Executable executable(4096)

(***************************************************************************)
(* u64 values as 8 little-endian bytes.                                    *)
(***************************************************************************)
RECURSIVE ShiftRight8(_, _)
\* n >> (8*k), arithmetic
ShiftRight8(n, k) == IF k = 0 THEN n ELSE ShiftRight8(n \div 256, k - 1)

\* the k lowest bytes of the two's complement representation of n
LittleEndian(n, k) == [i \in 1..k |-> ShiftRight8(n, i - 1) % 256]

U64(n) == LittleEndian(n, 8)

Zero64 == U64(0)
One64 == U64(1)
\* 0x8000000000000000
SignBit64 == <<0, 0, 0, 0, 0, 0, 0, 128>>
RECURSIVE IncBytes(_, _)
\* v + 1 from byte i upwards, wrapping at the top byte
IncBytes(v, i) ==
  IF i > Len(v) THEN v
  ELSE IF v[i] = 255 THEN IncBytes([v EXCEPT ![i] = 0], i + 1)
  ELSE [v EXCEPT ![i] = v[i] + 1]

\* registers[0]++ on u64
Inc64(v) == IncBytes(v, 1)

RECURSIVE ULessFrom(_, _, _)
ULessFrom(a, b, i) ==
  IF i = 0 THEN FALSE
  ELSE IF a[i] # b[i] THEN a[i] < b[i]
  ELSE ULessFrom(a, b, i - 1)

\* a < b on u64 (the C++ operator< of VM_Register)
ULess64(a, b) == ULessFrom(a, b, 8)

Negative64(v) == v[8] >= 128

\* a < b on the same bits read as signed 64-bit integers
SLess64(a, b) ==
  IF Negative64(a) # Negative64(b) THEN Negative64(a) ELSE ULess64(a, b)

Bool64(c) == IF c THEN One64 ELSE Zero64

(***************************************************************************)
(* Instructions, blocks and the program builder.                           *)
(***************************************************************************)
Exit == [type |-> "Exit"]
LoadImmediate(value) == [type |-> "LoadImmediate", value |-> value]
Load(reg) == [type |-> "Load", reg |-> reg]
Store(reg) == [type |-> "Store", reg |-> reg]
SetLocal(local) == [type |-> "SetLocal", local |-> local]
GetLocal(local) == [type |-> "GetLocal", local |-> local]
Increment == [type |-> "Increment"]
Jump(target_block) == [type |-> "Jump", target_block |-> target_block]
JumpConditional(true_block, false_block) ==
  [type |-> "JumpConditional", true_block |-> true_block, false_block |-> false_block]
LessThan(lhs) == [type |-> "LessThan", lhs |-> lhs]

\* the enumerators of Instruction::Type
InstructionTypes ==
  {"Exit", "LoadImmediate", "Load", "Store", "SetLocal", "GetLocal", "Increment",
   "Jump", "JumpConditional", "LessThan"}

\* an instruction of a client's own subclass of Instruction, constructed with a
\* type that is none of the enumerators
Unknown == [type |-> "Unknown"]

\* a default-constructed BasicBlock
BasicBlock == [instructions |-> <<>>, offset |-> 0, jumps_to_here |-> <<>>]

\* Program::make_block
make_block(blocks) == Append(blocks, BasicBlock)

\* BasicBlock::append on block b of the program
append(blocks, b, instruction) ==
  [blocks EXCEPT ![b].instructions = Append(@, instruction)]

(***************************************************************************)
(* Assembler.  The assembler state a is the byte buffer it appends to and  *)
(* the blocks whose jumps_to_here lists it extends; error is set where the  *)
(* code throws.  Buffer offsets are 0-based as in the code, so offset k is  *)
(* buf[k + 1] here.                                                         *)
(***************************************************************************)
R0 == 0                  \* RAX
R1 == 1                  \* RCX
RegisterArrayBase == 6   \* RSI
LocalArrayBase == 2      \* RDX
SizeofValue == 8         \* sizeof(VM_Register), sizeof(VM_Local)
\* 0xdeadbeef as the 32-bit two's complement integer with the same bytes
DeadBeef == -559038737

OperandRegister(reg) == [type |-> "Reg", reg |-> reg, offset_or_immediate |-> 0]
OperandImm64(immediate) == [type |-> "Imm64", reg |-> R0, offset_or_immediate |-> immediate]
OperandMem64BaseAndOffset(base, offset) ==
  [type |-> "Mem64BaseAndOffset", reg |-> base, offset_or_immediate |-> offset]

emit8(a, byte) == [a EXCEPT !.buf = Append(@, byte % 256)]

emit32(a, dword) == [a EXCEPT !.buf = @ \o LittleEndian(dword, 4)]

\* qword is a u64, already held as its 8 bytes
emit64(a, qword) == [a EXCEPT !.buf = @ \o qword]

mov(a, dst, src) ==
  IF dst.type = "Reg" /\ src.type = "Reg"
  THEN emit8(emit8(emit8(a, 72), 137), 192 + dst.reg * 8 + src.reg)
  ELSE IF dst.type = "Reg" /\ src.type = "Imm64"
  THEN emit64(emit8(emit8(a, 72), 184 + dst.reg), src.offset_or_immediate)
  ELSE IF dst.type = "Mem64BaseAndOffset" /\ src.type = "Reg"
  THEN emit32(emit8(emit8(emit8(a, 72), 137), 128 + src.reg * 8 + dst.reg),
              dst.offset_or_immediate)
  ELSE IF dst.type = "Reg" /\ src.type = "Mem64BaseAndOffset"
  THEN emit32(emit8(emit8(emit8(a, 72), 139), 128 + dst.reg * 8 + src.reg),
              src.offset_or_immediate)
  ELSE [a EXCEPT !.error = "Unsupported MOV operation"]

load_immediate64(a, dst, value) == mov(a, OperandRegister(dst), OperandImm64(value))

store_vm_register(a, dst, src) ==
  mov(a, OperandMem64BaseAndOffset(RegisterArrayBase, dst * SizeofValue), OperandRegister(src))

load_vm_register(a, dst, src) ==
  mov(a, OperandRegister(dst), OperandMem64BaseAndOffset(RegisterArrayBase, src * SizeofValue))

store_vm_local(a, local, src) ==
  mov(a, OperandMem64BaseAndOffset(LocalArrayBase, local * SizeofValue), OperandRegister(src))

load_vm_local(a, dst, local) ==
  mov(a, OperandRegister(dst), OperandMem64BaseAndOffset(LocalArrayBase, local * SizeofValue))

increment(a, reg) == emit8(emit8(emit8(a, 72), 255), 192 + reg)

less_than(a, dst, src) ==
  LET cmp == emit8(emit8(emit8(a, 72), 57), 192 + src * 8 + dst)
      setl == emit8(emit8(emit8(cmp, 15), 156), 192 + dst)
  IN emit8(emit8(emit8(emit8(setl, 72), 15), 182), 192 + dst * 8 + dst)

\* jump without the push_back: the placeholder is on no list
jump_unrecorded(a, target_block) == emit32(emit8(a, 233), DeadBeef)

\* buf.size() is pushed on the target's list after the opcode byte is emitted
jump(a, target_block) ==
  LET op == emit8(a, 233)
      rec == [op EXCEPT !.blocks[target_block].jumps_to_here = Append(@, Len(op.buf))]
  IN emit32(rec, DeadBeef)

jump_conditional(a, cond, true_block, false_block) ==
  LET cmp == emit8(emit8(emit8(emit8(a, 72), 131), 248), cond)
      jz == emit8(emit8(cmp, 15), 132)
      rec == [jz EXCEPT !.blocks[false_block].jumps_to_here = Append(@, Len(jz.buf))]
  IN jump(emit32(rec, DeadBeef), true_block)

exit(a) == emit8(a, 195)

(***************************************************************************)
(* Jit: lowering of one VM instruction, then phase 1 (emission) and phase  *)
(* 2 (fixups) of Jit::compile.                                             *)
(***************************************************************************)
compile_load_immediate(a, instruction) ==
  store_vm_register(load_immediate64(a, R0, instruction.value), 0, R0)

compile_load(a, instruction) ==
  store_vm_register(load_vm_register(a, R0, instruction.reg), 0, R0)

compile_store(a, instruction) ==
  store_vm_register(load_vm_register(a, R0, 0), instruction.reg, R0)

compile_get_local(a, instruction) ==
  store_vm_register(load_vm_local(a, R0, instruction.local), 0, R0)

compile_set_local(a, instruction) ==
  store_vm_local(load_vm_register(a, R0, 0), instruction.local, R0)

compile_increment(a, instruction) ==
  store_vm_register(increment(load_vm_register(a, R0, 0), R0), 0, R0)

compile_less_than(a, instruction) ==
  store_vm_register(
    less_than(load_vm_register(load_vm_register(a, R0, instruction.lhs), R1, 0), R0, R1),
    0, R0)

compile_jump(a, instruction) == jump(a, instruction.target_block)

compile_jump_conditional(a, instruction) ==
  jump_conditional(load_vm_register(a, R0, 0), R0,
                   instruction.true_block, instruction.false_block)

compile_exit(a, instruction) == exit(a)

\* the switch of Jit::compile
compile_instruction(a, instruction) ==
  CASE instruction.type = "LoadImmediate" -> compile_load_immediate(a, instruction)
    [] instruction.type = "Load" -> compile_load(a, instruction)
    [] instruction.type = "Store" -> compile_store(a, instruction)
    [] instruction.type = "SetLocal" -> compile_set_local(a, instruction)
    [] instruction.type = "GetLocal" -> compile_get_local(a, instruction)
    [] instruction.type = "Increment" -> compile_increment(a, instruction)
    [] instruction.type = "LessThan" -> compile_less_than(a, instruction)
    [] instruction.type = "Jump" -> compile_jump(a, instruction)
    [] instruction.type = "JumpConditional" -> compile_jump_conditional(a, instruction)
    [] instruction.type = "Exit" -> compile_exit(a, instruction)
    [] OTHER -> [a EXCEPT !.error = "Unknown instruction type"]

RECURSIVE EmitRange(_, _, _, _)
\* the inner loop of phase 1 over the instructions lo..hi (1-based) of block
\* b, in order; a throw leaves the loop with what was emitted so far
EmitRange(a, b, lo, hi) ==
  IF a.error # "" \/ lo > hi THEN a
  ELSE IF lo = hi THEN compile_instruction(a, a.blocks[b].instructions[lo])
  ELSE LET mid == (lo + hi) \div 2
       IN EmitRange(EmitRange(a, b, lo, mid), b, mid + 1, hi)

RECURSIVE EmitFrom(_, _)
\* EmitFrom with the block's offset recorded behind its instructions
EmitFromOffsetBehind(a, b) ==
  IF a.error # "" \/ b > Len(a.blocks) THEN a
  ELSE LET e == EmitRange(a, b, 1, Len(a.blocks[b].instructions))
       IN EmitFrom([e EXCEPT !.blocks[b].offset = Len(e.buf)], b + 1)

\* the outer loop of phase 1, from block b on: the block's offset is recorded,
\* then its instructions are lowered
EmitFrom(a, b) ==
  IF a.error # "" \/ b > Len(a.blocks) THEN a
  ELSE EmitFrom(EmitRange([a EXCEPT !.blocks[b].offset = Len(a.buf)], b,
                          1, Len(a.blocks[b].instructions)),
                b + 1)

\* phase 1 of Jit::compile on a fresh Jit (empty buf)
EmitProgram(blocks) == EmitFrom([buf |-> <<>>, blocks |-> blocks, error |-> ""], 1)

\* the four byte stores of one fixup: buf[jump + k] = (offset >> 8k) & 0xff
PatchSite(buf, block_offset, site) ==
  LET offset == block_offset - site - 4
  IN [k \in 1..Len(buf) |->
        IF k - 1 >= site /\ k - 1 < site + 4
        THEN ShiftRight8(offset, k - 1 - site) % 256
        ELSE buf[k]]

RECURSIVE PatchFrom(_, _, _, _)
\* the two nested loops of phase 2, from entry j of block b's list on
PatchFrom(buf, blocks, b, j) ==
  IF b > Len(blocks) THEN buf
  ELSE IF j > Len(blocks[b].jumps_to_here) THEN PatchFrom(buf, blocks, b + 1, 1)
  ELSE PatchFrom(PatchSite(buf, blocks[b].offset, blocks[b].jumps_to_here[j]),
                 blocks, b, j + 1)

PatchProgram(buf, blocks) == PatchFrom(buf, blocks, 1, 1)

(***************************************************************************)
(* The native code.  VM::jit calls the region as a function with RSI =     *)
(* registers.data() and RDX = locals.data(); RAX, RCX and the flags hold   *)
(* what the caller left.  NativeStep executes the one x86-64 instruction   *)
(* at cpu.rip: the encodings the Assembler emits, and 00 00, add [rax],    *)
(* al, which is what the zero bytes behind the code are (mmap zero-fills   *)
(* the region).  An instruction that does not lie inside the region with   *)
(* all its bytes is a fault: the processor cannot fetch it.  Any other     *)
(* byte sequence is "undecoded": the processor does something this model   *)
(* does not describe.  cpu.lt is the condition SETL tests (SF # OF) and    *)
(* cpu.zf the zero flag.                                                   *)
(*                                                                         *)
(* The program determines neither the registers at the call nor the        *)
(* memory outside the two arrays.  A byte the program does not determine   *)
(* is written -1: it stands for every byte, and a state that holds it for  *)
(* every state that differs from it in such bytes only.                    *)
(*                                                                         *)
(* The native code checks no index.  A memory operand that names no slot   *)
(* of the two arrays is an access to whatever lies at that address; what   *)
(* the access does is the parameter wild of NativeStep.  Of a mov: the     *)
(* process is killed ("fault"), the address belongs to neither array       *)
(* ("elsewhere": a read sees wild.value, a write leaves the arrays alone), *)
(* or it is a slot of the other array ("other": the two arrays are         *)
(* neighbours on the heap).  Of an add [rax], al: the process is killed    *)
(* ("fault"), or the byte added to lies outside the arrays ("elsewhere")   *)
(* or inside them ("arrays"), and wild.zf and wild.lt are the flags the    *)
(* sum leaves.  Of an inc or cmp of a value the program does not           *)
(* determine: wild.zf and wild.lt are the flags it leaves ("flags").       *)
(***************************************************************************)
ByteAt(data, off) == IF off >= 0 /\ off < Len(data) THEN data[off + 1] ELSE 0

\* the signed 32-bit little-endian integer at [off, off + 4)
Signed32At(data, off) ==
  LET b3 == ByteAt(data, off + 3)
  IN ByteAt(data, off) + 256 * ByteAt(data, off + 1) + 65536 * ByteAt(data, off + 2)
     + 16777216 * (IF b3 >= 128 THEN b3 - 256 ELSE b3)

Bytes8At(data, off) == [i \in 1..8 |-> ByteAt(data, off + i - 1)]

GetReg(cpu, r) == IF r = R0 THEN cpu.rax ELSE cpu.rcx

SetReg(cpu, r, v) == IF r = R0 THEN [cpu EXCEPT !.rax = v] ELSE [cpu EXCEPT !.rcx = v]

\* imm8 sign-extended to 64 bits
SignExtend8(b) == IF b >= 128 THEN [i \in 1..8 |-> IF i = 1 THEN b ELSE 255]
                  ELSE [i \in 1..8 |-> IF i = 1 THEN b ELSE 0]

\* a byte zero-extended to 64 bits
ZeroExtend8(b) == [i \in 1..8 |-> IF i = 1 THEN b ELSE 0]

\* a 64-bit value the program does not determine
Unknown64 == [i \in 1..8 |-> -1]

\* every byte of v is determined
Known64(v) == \A i \in 1..8 : v[i] >= 0

\* <<ZF, SF # OF>> of the byte sum m + al
AddFlags(m, al) ==
  LET r == (m + al) % 256
      of == ((m >= 128) = (al >= 128)) /\ ((r >= 128) # (m >= 128))
  IN <<r = 0, (r >= 128) # of>>

\* the flags ADD [rax], al may leave: the byte in memory is any byte, and so
\* is AL where the program does not determine RAX
AddFlagsOf(rax) ==
  IF rax[1] < 0 THEN BOOLEAN \X BOOLEAN
  ELSE {AddFlags(m, rax[1]) : m \in 0..255}

\* v is an address outside the lower half of the address space, where no
\* page of a process is mapped
NotUserAddress(v) == v[8] > 0 \/ v[7] >= 128

\* flags of CMP x, y (computes x - y); of values the program does not
\* determine, the flags wild names
CmpFlags(cpu, x, y, wild) ==
  IF Known64(x) /\ Known64(y) THEN [cpu EXCEPT !.zf = (x = y), !.lt = SLess64(x, y)]
  ELSE [cpu EXCEPT !.zf = wild.zf, !.lt = wild.lt]

\* a qword memory operand [base + disp] names a slot of one of the two arrays
MemOk(base, disp, vm) ==
  /\ disp >= 0 /\ disp % SizeofValue = 0
  /\ \/ base = RegisterArrayBase /\ disp \div SizeofValue < Len(vm.registers)
     \/ base = LocalArrayBase /\ disp \div SizeofValue < Len(vm.locals)

\* what a mov outside the arrays may do; a read elsewhere sees a value the
\* program does not determine
WildOutcomes ==
  {[kind |-> "fault", value |-> Zero64, slot |-> 0, zf |-> FALSE, lt |-> FALSE]}
  \cup {[kind |-> "elsewhere", value |-> Unknown64, slot |-> 0, zf |-> FALSE, lt |-> FALSE]}
  \cup {[kind |-> "other", value |-> Zero64, slot |-> s, zf |-> FALSE, lt |-> FALSE] :
          s \in 0..(NumRegisters - 1)}

NoWild == [kind |-> "fault", value |-> Zero64, slot |-> 0, zf |-> FALSE, lt |-> FALSE]

\* the access outside the arrays reaches slot wild.slot of the array that is
\* not the operand's base
WildInOther(base, vm, wild) ==
  /\ wild.kind = "other"
  /\ base \in {RegisterArrayBase, LocalArrayBase}
  /\ wild.slot < (IF base = RegisterArrayBase THEN Len(vm.locals) ELSE Len(vm.registers))

\* the value a read outside the arrays yields
WildRead(base, vm, wild) ==
  IF WildInOther(base, vm, wild)
  THEN IF base = RegisterArrayBase THEN vm.locals[wild.slot + 1]
       ELSE vm.registers[wild.slot + 1]
  ELSE wild.value

\* the arrays after a write of v outside them
WildWrite(base, vm, wild, v) ==
  IF WildInOther(base, vm, wild)
  THEN IF base = RegisterArrayBase THEN [vm EXCEPT !.locals[wild.slot + 1] = v]
       ELSE [vm EXCEPT !.registers[wild.slot + 1] = v]
  ELSE vm

MemRead(base, disp, vm) ==
  IF base = RegisterArrayBase THEN vm.registers[disp \div SizeofValue + 1]
  ELSE vm.locals[disp \div SizeofValue + 1]

MemWrite(base, disp, vm, v) ==
  IF base = RegisterArrayBase THEN [vm EXCEPT !.registers[disp \div SizeofValue + 1] = v]
  ELSE [vm EXCEPT !.locals[disp \div SizeofValue + 1] = v]

\* the instruction at cpu.rip is an inc or a cmp of a register that holds a
\* value the program does not determine
FlagsUndetermined(cpu, data) ==
  LET rip == cpu.rip
      b1 == ByteAt(data, rip + 1)
      b2 == ByteAt(data, rip + 2)
      reg == (b2 \div 8) % 8
      rm == b2 % 8
  IN /\ rip >= 0 /\ rip + 3 <= RegionSize
     /\ ByteAt(data, rip) = 72 /\ b2 \div 64 = 3 /\ rm \in {R0, R1}
     /\ \/ b1 = 255 /\ reg = 0 /\ ~Known64(GetReg(cpu, rm))
        \/ b1 = 57 /\ reg \in {R0, R1}
           /\ (~Known64(GetReg(cpu, rm)) \/ ~Known64(GetReg(cpu, reg)))
        \/ b1 = 131 /\ reg = 7 /\ rip + 4 <= RegionSize /\ ~Known64(GetReg(cpu, rm))

\* what the instruction at cpu.rip may do that the program does not
\* determine: a mov whose operand names no slot of the two arrays,
\* WildOutcomes; an add [rax], al, a fault, or unless RAX is no address of
\* the process, a sum outside or inside the arrays with any flags it can
\* leave; an inc or cmp of an undetermined value, any flags it can leave (a
\* zero result is not less); nothing to choose for any other instruction
WildChoices(cpu, data, vm) ==
  LET rip == cpu.rip
      b0 == ByteAt(data, rip)
      b1 == ByteAt(data, rip + 1)
      b2 == ByteAt(data, rip + 2)
  IN IF /\ rip >= 0 /\ rip + 7 <= RegionSize
        /\ b0 = 72 /\ b1 \in {137, 139}
        /\ b2 \div 64 = 2
        /\ (b2 \div 8) % 8 \in {R0, R1}
        /\ ~MemOk(b2 % 8, Signed32At(data, rip + 3), vm)
     THEN WildOutcomes
     ELSE IF rip >= 0 /\ rip + 2 <= RegionSize /\ b0 = 0 /\ b1 = 0
     THEN {NoWild}
          \cup (IF NotUserAddress(cpu.rax) THEN {}
                ELSE {[kind |-> k, value |-> Zero64, slot |-> 0, zf |-> f[1], lt |-> f[2]] :
                        k \in {"elsewhere", "arrays"}, f \in AddFlagsOf(cpu.rax)})
     ELSE IF FlagsUndetermined(cpu, data)
     THEN {[kind |-> "flags", value |-> Zero64, slot |-> 0, zf |-> f[1], lt |-> f[2]] :
             f \in {g \in BOOLEAN \X BOOLEAN : ~(g[1] /\ g[2])}}
     ELSE {NoWild}

NativeStep(cpu, data, vm, wild) ==
  LET rip == cpu.rip
      b0 == ByteAt(data, rip)
      b1 == ByteAt(data, rip + 1)
      b2 == ByteAt(data, rip + 2)
      mod == b2 \div 64
      reg == (b2 \div 8) % 8
      rm == b2 % 8
      disp == Signed32At(data, rip + 3)
      fault == [cpu |-> cpu, vm |-> vm, status |-> "fault"]
      go(c, v) == [cpu |-> c, vm |-> v, status |-> "running"]
      \* the n bytes of the instruction at rip lie inside the region
      fits(n) == rip + n <= RegionSize
      \* the arrays after an add has changed a byte of one of their slots: which
      \* slot and which byte RAX names the program does not determine
      hit == [registers |-> [i \in DOMAIN vm.registers |-> Unknown64],
              locals |-> [i \in DOMAIN vm.locals |-> Unknown64]]
  IN
  IF rip < 0 \/ rip >= RegionSize THEN fault
  ELSE IF b0 = 195                                      \* C3: ret
  THEN [cpu |-> cpu, vm |-> vm, status |-> "returned"]
  ELSE IF b0 = 233                                      \* E9 rel32: jmp
  THEN IF ~fits(5) THEN fault
       ELSE go([cpu EXCEPT !.rip = rip + 5 + Signed32At(data, rip + 1)], vm)
  ELSE IF b0 = 0                                        \* 00 /r: add rm8, r8
  THEN IF ~fits(2) THEN fault
       ELSE IF b1 # 0 THEN [cpu |-> cpu, vm |-> vm, status |-> "undecoded"]
       ELSE IF NotUserAddress(cpu.rax) \/ wild.kind = "fault"
       THEN fault                                       \* 00 00: add [rax], al
       ELSE go([cpu EXCEPT !.rip = rip + 2, !.zf = wild.zf, !.lt = wild.lt],
               IF wild.kind = "arrays" THEN hit ELSE vm)
  ELSE IF b0 \in {15, 72} /\ ~fits(3) THEN fault
  ELSE IF b0 = 15 /\ b1 = 132                           \* 0F 84 rel32: jz
  THEN IF ~fits(6) THEN fault
       ELSE go([cpu EXCEPT !.rip = rip + 6 + (IF cpu.zf THEN Signed32At(data, rip + 2)
                                              ELSE 0)], vm)
  ELSE IF b0 = 15 /\ b1 = 156 /\ mod = 3 /\ rm \in {R0, R1}          \* 0F 9C /r: setl r8
  THEN go([SetReg(cpu, rm, [GetReg(cpu, rm) EXCEPT ![1] = IF cpu.lt THEN 1 ELSE 0])
             EXCEPT !.rip = rip + 3], vm)
  ELSE IF b0 # 72 THEN [cpu |-> cpu, vm |-> vm, status |-> "undecoded"]  \* 48: REX.W
  ELSE IF b1 \in {184 + R0, 184 + R1}                   \* B8+r imm64: mov r, imm64
  THEN IF ~fits(10) THEN fault
       ELSE go([SetReg(cpu, b1 - 184, Bytes8At(data, rip + 2)) EXCEPT !.rip = rip + 10], vm)
  ELSE IF b1 = 137 /\ mod = 3 /\ reg \in {R0, R1} /\ rm \in {R0, R1}   \* 89 /r: mov rm, r
  THEN go([SetReg(cpu, rm, GetReg(cpu, reg)) EXCEPT !.rip = rip + 3], vm)
  ELSE IF b1 = 137 /\ mod = 2 /\ reg \in {R0, R1}       \* 89 /r: mov [rm+disp32], r
  THEN IF ~fits(7) THEN fault
       ELSE IF MemOk(rm, disp, vm)
       THEN go([cpu EXCEPT !.rip = rip + 7], MemWrite(rm, disp, vm, GetReg(cpu, reg)))
       ELSE IF wild.kind = "fault" THEN fault
       ELSE go([cpu EXCEPT !.rip = rip + 7], WildWrite(rm, vm, wild, GetReg(cpu, reg)))
  ELSE IF b1 = 139 /\ mod = 2 /\ reg \in {R0, R1}       \* 8B /r: mov r, [rm+disp32]
  THEN IF ~fits(7) THEN fault
       ELSE IF MemOk(rm, disp, vm)
       THEN go([SetReg(cpu, reg, MemRead(rm, disp, vm)) EXCEPT !.rip = rip + 7], vm)
       ELSE IF wild.kind = "fault" THEN fault
       ELSE go([SetReg(cpu, reg, WildRead(rm, vm, wild)) EXCEPT !.rip = rip + 7], vm)
  ELSE IF b1 = 255 /\ mod = 3 /\ reg = 0 /\ rm \in {R0, R1}           \* FF /0: inc rm
  THEN IF ~Known64(GetReg(cpu, rm))
       THEN go([SetReg(cpu, rm, Unknown64) EXCEPT !.rip = rip + 3, !.zf = wild.zf,
                                                  !.lt = wild.lt], vm)
       ELSE LET v == Inc64(GetReg(cpu, rm))
            IN go([SetReg(cpu, rm, v) EXCEPT !.rip = rip + 3, !.zf = (v = Zero64),
                                             !.lt = (Negative64(v) # (v = SignBit64))], vm)
  ELSE IF b1 = 57 /\ mod = 3 /\ reg \in {R0, R1} /\ rm \in {R0, R1}    \* 39 /r: cmp rm, r
  THEN go([CmpFlags(cpu, GetReg(cpu, rm), GetReg(cpu, reg), wild)
             EXCEPT !.rip = rip + 3], vm)
  ELSE IF b1 = 131 /\ mod = 3 /\ reg = 7 /\ rm \in {R0, R1}           \* 83 /7 ib: cmp rm, imm8
  THEN IF ~fits(4) THEN fault
       ELSE go([CmpFlags(cpu, GetReg(cpu, rm), SignExtend8(ByteAt(data, rip + 3)), wild)
                  EXCEPT !.rip = rip + 4], vm)
  ELSE IF b1 = 15 /\ b2 = 182                           \* 0F B6 /r: movzx r, rm8
  THEN LET m == ByteAt(data, rip + 3)
       IN IF ~fits(4) THEN fault
          ELSE IF m \div 64 = 3 /\ (m \div 8) % 8 \in {R0, R1} /\ m % 8 \in {R0, R1}
          THEN go([SetReg(cpu, (m \div 8) % 8, ZeroExtend8(GetReg(cpu, m % 8)[1]))
                     EXCEPT !.rip = rip + 4], vm)
          ELSE [cpu |-> cpu, vm |-> vm, status |-> "undecoded"]
  ELSE [cpu |-> cpu, vm |-> vm, status |-> "undecoded"]

(***************************************************************************)
(* State.                                                                  *)
(***************************************************************************)
VARIABLES
  blocks,             \* Program::blocks
  initial,            \* the register and local arrays every VM is constructed with
  step_bound,         \* step bound of one interpreter run
  pc,                 \* position of the client: "idle", inside interpret, inside jit;
                      \* "crashed": killed by a fault; "terminated": std::terminate
  vm_i,               \* the VM that runs VM::interpret
  current_block,      \* VM::interpret: current_block
  instruction_index,  \* VM::interpret: instruction_index
  interp_status,      \* "none", "running", "done" (the loop was left), "timeout", "error"
  steps,              \* instructions dispatched (x86 instructions executed) in this run
  exit_seen,          \* this interpreter run has dispatched an Exit
  exit_vm,            \* vm_i when the first Exit of this run was dispatched
  after_exit,         \* instructions dispatched after the first Exit of this run
  increments,         \* Increment instructions dispatched in this run, as a u64
  vm_j,               \* the VM that runs VM::jit
  buf,                \* Jit::buf
  executable,         \* the Executable of Jit::compile
  cpu,                \* the processor inside the native code
  jit_status,         \* "none", "compiling", "error", "returned", "fault", "undecoded"
  compiles,           \* calls of VM::jit so far
  variables,          \* AstInterpreter::variables
  ast_calls,          \* calls of AstInterpreter::interpret so far
  last_ast,           \* the node given to the last call
  pre_variables,      \* variables when the last call began
  ast_result,         \* the value the last call returned
  ast_status,         \* "none"; of the last call: "ok", "assert" (abort), "trap", "fuel"
  overflow_traps,     \* the build traps on signed overflow of int; if not, it wraps
  result_copies       \* copies of the Executable this build makes when Jit::compile returns

vars == <<blocks, initial, step_bound, pc, vm_i, current_block, instruction_index,
          interp_status, steps, exit_seen, exit_vm, after_exit, increments,
          vm_j, buf, executable, cpu, jit_status, compiles,
          variables, ast_calls, last_ast, pre_variables, ast_result, ast_status,
          overflow_traps, result_copies>>

ast_vars == <<variables, ast_calls, last_ast, pre_variables, ast_result, ast_status,
              overflow_traps>>

interp_vars == <<vm_i, current_block, instruction_index, interp_status,
                 exit_seen, exit_vm, after_exit, increments>>

jit_vars == <<vm_j, buf, executable, cpu, jit_status, compiles>>

\* registers.resize(8), locals.resize(8): value-initialised
ZeroVM == [registers |-> [i \in 1..NumRegisters |-> Zero64],
           locals |-> [i \in 1..NumLocals |-> Zero64]]

\* arrays as a client has filled them before a run: register 1 holds 2^63
FilledVM == [ZeroVM EXCEPT !.registers[2] = SignBit64]

\* operands of the instructions a client appends
ImmediateOperands == {Zero64, SignBit64}
RegisterOperands == {1}
LocalOperands == {0}

InstructionOperands(nblocks) ==
  {Exit, Increment, Unknown}
  \cup {LoadImmediate(v) : v \in ImmediateOperands}
  \cup {Load(r) : r \in RegisterOperands}
  \cup {Store(r) : r \in RegisterOperands}
  \cup {LessThan(r) : r \in RegisterOperands}
  \cup {SetLocal(l) : l \in LocalOperands}
  \cup {GetLocal(l) : l \in LocalOperands}
  \cup {Jump(b) : b \in 1..nblocks}
  \cup {JumpConditional(t, f) : t \in 1..nblocks, f \in 1..nblocks}

RECURSIVE CountInstructions(_, _)
CountInstructions(bs, b) ==
  IF b > Len(bs) THEN 0 ELSE Len(bs[b].instructions) + CountInstructions(bs, b + 1)

\* no Executable exists: size 0, nothing mapped.  Of an Executable, overrun is
\* the number of bytes written behind its end, unmaps the calls of munmap on
\* it, entered whether its code was called and finalized whether finalize()
\* has returned (mprotect succeeded).
NoExecutable == [mapped |-> FALSE, prot |-> {}, data |-> <<>>, size |-> 0,
                 overrun |-> 0, unmaps |-> 0, entered |-> FALSE, finalized |-> FALSE]
\* no native code runs
NoCpu == [rip |-> 0, rax |-> Zero64, rcx |-> Zero64, zf |-> FALSE, lt |-> FALSE]

\* the processor at the first instruction of the region: VM::jit sets RDI,
\* RSI and RDX for the call and nothing else, so RAX, RCX and the flags are
\* whatever the caller's code left in them
EntryCpus == [rip : {0}, rax : {Unknown64}, rcx : {Unknown64}, zf : BOOLEAN, lt : BOOLEAN]

InitCommon ==
  /\ pc = "idle"
  /\ vm_i = initial
  /\ current_block = 1
  /\ instruction_index = 0
  /\ interp_status = "none"
  /\ steps = 0
  /\ exit_seen = FALSE
  /\ exit_vm = initial
  /\ after_exit = 0
  /\ increments = Zero64
  /\ vm_j = initial
  /\ buf = <<>>
  /\ executable = NoExecutable
  /\ cpu = NoCpu
  /\ jit_status = "none"
  /\ compiles = 0

\* AstInterpreter(): the environment is empty
InitAst ==
  /\ variables = <<>>
  /\ ast_calls = 0
  /\ last_ast = [type |-> "None"]
  /\ pre_variables = <<>>
  /\ ast_result = 0
  /\ ast_status = "none"
  /\ overflow_traps = FALSE

\* auto program = Program(); the VMs are constructed at the start of each run
Init ==
  /\ blocks = <<>>
  /\ initial = FilledVM
  /\ step_bound = MaxSteps
  /\ result_copies \in 0..2
  /\ InitCommon
  /\ InitAst

(***************************************************************************)
(* The builder.                                                            *)
(***************************************************************************)
MakeBlock ==
  /\ pc = "idle"
  /\ Len(blocks) < MaxBlocks
  /\ blocks' = make_block(blocks)
  /\ UNCHANGED <<initial, step_bound, result_copies, pc, steps, interp_vars, jit_vars>>
  /\ UNCHANGED ast_vars

AppendInstruction ==
  /\ pc = "idle"
  /\ CountInstructions(blocks, 1) < MaxInstructions
  /\ \E b \in 1..Len(blocks) : \E instruction \in InstructionOperands(Len(blocks)) :
       blocks' = append(blocks, b, instruction)
  /\ UNCHANGED <<initial, step_bound, result_copies, pc, steps, interp_vars, jit_vars>>
  /\ UNCHANGED ast_vars

(***************************************************************************)
(* VM::interpret.                                                          *)
(***************************************************************************)
\* Execute with the operands of LessThan exchanged: accumulator < registers[lhs]
ExecuteSwapped(vm, instruction) ==
  CASE instruction.type = "LoadImmediate" -> [vm EXCEPT !.registers[1] = instruction.value]
    [] instruction.type = "Load" ->
         [vm EXCEPT !.registers[1] = vm.registers[instruction.reg + 1]]
    [] instruction.type = "Store" ->
         [vm EXCEPT !.registers[instruction.reg + 1] = vm.registers[1]]
    [] instruction.type = "SetLocal" ->
         [vm EXCEPT !.locals[instruction.local + 1] = vm.registers[1]]
    [] instruction.type = "GetLocal" ->
         [vm EXCEPT !.registers[1] = vm.locals[instruction.local + 1]]
    [] instruction.type = "Increment" -> [vm EXCEPT !.registers[1] = Inc64(@)]
    [] instruction.type = "LessThan" ->
         [vm EXCEPT !.registers[1] =
            Bool64(ULess64(vm.registers[1], vm.registers[instruction.lhs + 1]))]
    [] OTHER -> vm

\* the effect of one dispatched instruction on the arrays
Execute(vm, instruction) ==
  CASE instruction.type = "LoadImmediate" -> [vm EXCEPT !.registers[1] = instruction.value]
    [] instruction.type = "Load" ->
         [vm EXCEPT !.registers[1] = vm.registers[instruction.reg + 1]]
    [] instruction.type = "Store" ->
         [vm EXCEPT !.registers[instruction.reg + 1] = vm.registers[1]]
    [] instruction.type = "SetLocal" ->
         [vm EXCEPT !.locals[instruction.local + 1] = vm.registers[1]]
    [] instruction.type = "GetLocal" ->
         [vm EXCEPT !.registers[1] = vm.locals[instruction.local + 1]]
    [] instruction.type = "Increment" -> [vm EXCEPT !.registers[1] = Inc64(@)]
    [] instruction.type = "LessThan" ->
         [vm EXCEPT !.registers[1] =
            Bool64(ULess64(vm.registers[instruction.lhs + 1], vm.registers[1]))]
    [] OTHER -> vm

\* the block the loop continues in after the instruction
NextBlock(vm, block, instruction) ==
  CASE instruction.type = "Jump" -> instruction.target_block
    [] instruction.type = "JumpConditional" ->
         IF vm.registers[1] # Zero64 THEN instruction.true_block
         ELSE instruction.false_block
    [] OTHER -> block

\* NextIndex without the reset: a jump goes on at the index behind its own
NextIndexKept(index, instruction) == index + 1

\* the instruction index the loop continues at; Exit leaves the switch like
\* the other non-jump cases and reaches instruction_index++
NextIndex(index, instruction) ==
  IF instruction.type \in {"Jump", "JumpConditional"} THEN 0 ELSE index + 1

\* vm.interpret(program) on a fresh VM.  program.blocks[0].get() is evaluated
\* whatever the program is: of a program with no block it reads the element
\* of an empty vector, at the null pointer, and the process is killed.
InterpretBegin ==
  /\ pc = "idle"
  /\ interp_status = "none"
  /\ pc' = IF Len(blocks) >= 1 THEN "interpret" ELSE "crashed"
  /\ vm_i' = initial
  /\ current_block' = 1
  /\ instruction_index' = 0
  /\ interp_status' = IF Len(blocks) >= 1 THEN "running" ELSE "fault"
  /\ steps' = 0
  /\ exit_seen' = FALSE
  /\ exit_vm' = initial
  /\ after_exit' = 0
  /\ increments' = Zero64
  /\ UNCHANGED <<blocks, initial, step_bound, result_copies, jit_vars>>
  /\ UNCHANGED ast_vars

\* one iteration of the for (;;) loop
InterpretStep ==
  /\ pc = "interpret"
  /\ IF instruction_index >= Len(blocks[current_block].instructions)
     THEN /\ pc' = "idle"
          /\ interp_status' = "done"
          /\ UNCHANGED <<vm_i, current_block, instruction_index, steps,
                         exit_seen, exit_vm, after_exit, increments>>
     ELSE LET instruction == blocks[current_block].instructions[instruction_index + 1]
          IN /\ steps < step_bound
             /\ interp_status = "running"
             /\ steps' = steps + 1
             /\ after_exit' = IF exit_seen THEN after_exit + 1 ELSE after_exit
             /\ IF instruction.type \notin InstructionTypes
                \* default: throw std::runtime_error("Unknown instruction type"),
                \* which nothing catches
                THEN /\ pc' = "terminated"
                     /\ interp_status' = "error"
                     /\ UNCHANGED <<vm_i, current_block, instruction_index,
                                    exit_seen, exit_vm, increments>>
                ELSE /\ vm_i' = Execute(vm_i, instruction)
                     /\ current_block' = NextBlock(vm_i, current_block, instruction)
                     /\ instruction_index' = NextIndex(instruction_index, instruction)
                     /\ exit_seen' = (exit_seen \/ instruction.type = "Exit")
                     /\ exit_vm' = IF ~exit_seen /\ instruction.type = "Exit" THEN vm_i
                                   ELSE exit_vm
                     /\ increments' = IF instruction.type = "Increment"
                                      THEN Inc64(increments) ELSE increments
                     /\ UNCHANGED <<pc, interp_status>>
  /\ UNCHANGED <<blocks, initial, step_bound, result_copies, jit_vars>>
  /\ UNCHANGED ast_vars

(***************************************************************************)
(* VM::jit: Jit::compile (Executable constructor, phase 1, phase 2, copy,  *)
(* finalize), the call of the native code, the Executable destructor.      *)
(***************************************************************************)
MaxNativePerInstruction == 6   \* x86 instructions of the longest lowering (LessThan)

\* ~Executable: munmap
Unmapped(e) == [e EXCEPT !.mapped = FALSE, !.prot = {}, !.unmaps = @ + 1]

\* vm.jit(program) on a fresh VM: Executable executable(4096).  mmap may fail,
\* then the constructor throws.  Nothing in the program catches an exception:
\* a throw inside Jit::compile leaves VM::jit and main, std::terminate ends
\* the process and no destructor has run.
JitBegin ==
  /\ pc = "idle"
  /\ compiles' = compiles + 1
  /\ vm_j' = initial
  /\ buf' = <<>>
  /\ cpu' = NoCpu
  /\ steps' = 0
  /\ \E mmap_ok \in BOOLEAN :
       IF mmap_ok
       THEN /\ executable' = [mapped |-> TRUE, prot |-> {"READ", "WRITE", "EXEC"},
                              data |-> <<>>, size |-> RegionSize,
                              overrun |-> 0, unmaps |-> 0, entered |-> FALSE,
                              finalized |-> FALSE]
            /\ jit_status' = "compiling"
            /\ pc' = "emit"
       ELSE /\ executable' = NoExecutable
            /\ jit_status' = "error"
            /\ pc' = "terminated"
  /\ UNCHANGED <<blocks, initial, step_bound, result_copies, interp_vars>>
  /\ UNCHANGED ast_vars

\* phase 1: every block's offset is recorded and its instructions are lowered.
\* An instruction of no known type throws; the exception is not caught, so
\* ~Executable does not run and the region stays mapped.
CompileEmit ==
  /\ pc = "emit"
  /\ LET a == EmitProgram(blocks)
     IN /\ blocks' = a.blocks
        /\ buf' = a.buf
        /\ IF a.error = ""
           THEN /\ pc' = "fixup"
                /\ UNCHANGED <<executable, jit_status>>
           ELSE /\ pc' = "terminated"
                /\ jit_status' = "error"
                /\ UNCHANGED executable
  /\ UNCHANGED <<initial, step_bound, result_copies, interp_vars, steps, vm_j, cpu, compiles>>
  /\ UNCHANGED ast_vars

\* phase 2: every site of every block's list is patched
CompileFixup ==
  /\ pc = "fixup"
  /\ buf' = PatchProgram(buf, blocks)
  /\ pc' = "copy"
  /\ UNCHANGED <<blocks, initial, step_bound, result_copies, interp_vars, steps, vm_j, executable,
                 cpu, jit_status, compiles>>
  /\ UNCHANGED ast_vars

\* the first n elements of s
Prefix(s, n) == SubSeq(s, 1, IF n < Len(s) THEN n ELSE Len(s))

\* std::copy(jit.buf.begin(), jit.buf.end(), (u8 *)executable.data): the copy
\* has no bound but the buffer's length.  Writing behind the end of the
\* mapping is undefined: the process is killed at the first byte behind it
\* (no page is mapped there) or the bytes land in whatever is mapped there.
CompileCopy ==
  /\ pc = "copy"
  /\ IF Len(buf) <= executable.size
     THEN /\ executable' = [executable EXCEPT !.data = buf]
          /\ pc' = "finalize"
          /\ UNCHANGED jit_status
     ELSE \E killed \in BOOLEAN :
            IF killed
            THEN /\ executable' = [executable EXCEPT !.data = Prefix(buf, executable.size)]
                 /\ pc' = "crashed"
                 /\ jit_status' = "fault"
            ELSE /\ executable' = [executable EXCEPT
                                     !.data = Prefix(buf, executable.size),
                                     !.overrun = Len(buf) - executable.size]
                 /\ pc' = "finalize"
                 /\ UNCHANGED jit_status
  /\ UNCHANGED <<blocks, initial, step_bound, result_copies, interp_vars, steps, vm_j, buf,
                 cpu, compiles>>
  /\ UNCHANGED ast_vars

\* CompileFinalize with the result of mprotect ignored: compile returns the
\* Executable whether or not the permissions were changed
CompileFinalizeUnchecked ==
  /\ pc = "finalize"
  /\ \E mprotect_ok \in BOOLEAN :
       executable' = IF mprotect_ok
                     THEN [executable EXCEPT !.prot = {"READ", "EXEC"}, !.finalized = TRUE]
                     ELSE executable
  /\ pc' = "enter"
  /\ UNCHANGED <<blocks, initial, step_bound, result_copies, interp_vars, steps, vm_j, buf,
                 cpu, jit_status, compiles>>
  /\ UNCHANGED ast_vars

\* executable.finalize(); return executable;  mprotect may fail, then
\* finalize throws; the exception is not caught, so ~Executable does not run
\* and the region stays mapped.  Executable has a destructor and
\* only the implicit copy constructor: every copy the build makes on the way
\* to the caller's object (of the returned local, and before C++17 of the
\* temporary it is copied to) shares data, and the destructor of its source
\* calls munmap on the region.
CompileFinalize ==
  /\ pc = "finalize"
  /\ \E mprotect_ok \in BOOLEAN :
       IF mprotect_ok
       THEN /\ LET e == [executable EXCEPT !.prot = {"READ", "EXEC"}, !.finalized = TRUE]
               IN executable' = CASE result_copies = 0 -> e
                                  [] result_copies = 1 -> Unmapped(e)
                                  [] OTHER -> Unmapped(Unmapped(e))
            /\ pc' = "enter"
            /\ UNCHANGED jit_status
       ELSE /\ pc' = "terminated"
            /\ jit_status' = "error"
            /\ UNCHANGED executable
  /\ UNCHANGED <<blocks, initial, step_bound, result_copies, interp_vars, steps, vm_j, buf,
                 cpu, compiles>>
  /\ UNCHANGED ast_vars

\* func(*this, registers.data(), locals.data()): the call of the address of
\* the region, with the registers the caller left.  Where the region is no
\* longer mapped nothing can be fetched from it and the call ends the process.
NativeEnter ==
  /\ pc = "enter"
  /\ cpu' \in EntryCpus
  /\ steps' = 0
  /\ pc' = IF executable.mapped THEN "native" ELSE "crashed"
  /\ jit_status' = IF executable.mapped THEN jit_status ELSE "fault"
  /\ executable' = [executable EXCEPT !.entered = TRUE]
  /\ UNCHANGED <<blocks, initial, step_bound, result_copies, interp_vars, vm_j, buf, compiles>>
  /\ UNCHANGED ast_vars

\* one x86 instruction of the native code; a fault ends the process, and an
\* instruction NativeStep does not decode ends what the model describes
NativeRun ==
  /\ pc = "native"
  /\ steps < MaxNativePerInstruction * step_bound
  /\ \E wild \in WildChoices(cpu, executable.data, vm_j) :
     LET r == NativeStep(cpu, executable.data, vm_j, wild)
     IN /\ cpu' = r.cpu
        /\ vm_j' = r.vm
        /\ steps' = steps + 1
        /\ pc' = CASE r.status = "returned" -> "return"
                   [] r.status = "fault" -> "crashed"
                   [] r.status = "undecoded" -> "undecoded"
                   [] OTHER -> "native"
        /\ jit_status' = IF r.status \in {"fault", "undecoded"} THEN r.status ELSE jit_status
  /\ UNCHANGED <<blocks, initial, step_bound, result_copies, interp_vars, buf, executable,
                 compiles>>
  /\ UNCHANGED ast_vars

\* VM::jit returns: the Executable goes out of scope
JitReturn ==
  /\ pc = "return"
  /\ executable' = Unmapped(executable)
  /\ jit_status' = "returned"
  /\ pc' = "idle"
  /\ UNCHANGED <<blocks, initial, step_bound, result_copies, interp_vars, steps, vm_j, buf,
                 cpu, compiles>>
  /\ UNCHANGED ast_vars

\* the client abandons a run that has used up the step bound
InterpretTimeout ==
  /\ pc = "interpret"
  /\ instruction_index < Len(blocks[current_block].instructions)
  /\ steps >= step_bound
  /\ pc' = "idle"
  /\ interp_status' = "timeout"
  /\ UNCHANGED <<blocks, initial, step_bound, result_copies, steps, vm_i, current_block,
                 instruction_index, exit_seen, exit_vm, after_exit, increments, jit_vars>>
  /\ UNCHANGED ast_vars

\* a client that calls Jit::compile itself and lets the Executable go out of scope
ExecutableDropped ==
  /\ pc = "enter"
  /\ executable' = Unmapped(executable)
  /\ jit_status' = "compiled"
  /\ pc' = "idle"
  /\ UNCHANGED <<blocks, initial, step_bound, result_copies, interp_vars, steps, vm_j, buf,
                 cpu, compiles>>
  /\ UNCHANGED ast_vars

\* no run has used the program yet
Fresh == interp_status = "none" /\ compiles = 0

BuildMakeBlock == Fresh /\ MakeBlock

BuildAppendInstruction == Fresh /\ AppendInstruction

\* the client calls vm.jit on the program it built, before or after a run of
\* the interpreter or without one
RunJitBegin ==
  /\ compiles < MaxJitRuns
  /\ JitBegin

Next ==
  \/ BuildMakeBlock
  \/ BuildAppendInstruction
  \/ InterpretBegin
  \/ InterpretStep
  \/ InterpretTimeout
  \/ RunJitBegin
  \/ CompileEmit
  \/ CompileFixup
  \/ CompileCopy
  \/ CompileFinalize
  \/ NativeEnter
  \/ NativeRun
  \/ JitReturn

Spec == Init /\ [][Next]_vars

(***************************************************************************)
(* A client that makes its two blocks first, as main() does, appends       *)
(* instructions of several encoded lengths and every kind of control flow, *)
(* then runs the interpreter, the JIT or both on the program, each once.   *)
(***************************************************************************)
LayoutOperands(nblocks) ==
  {Exit, Increment, Unknown, Load(1)}
  \cup {Jump(b) : b \in 1..nblocks}
  \cup {JumpConditional(p[1], p[2]) :
          p \in {q \in (1..nblocks) \X (1..nblocks) : q[1] # q[2]}}

InitLayout ==
  /\ blocks = make_block(make_block(<<>>))
  /\ initial = FilledVM
  /\ step_bound = MaxSteps
  /\ result_copies \in 0..2
  /\ InitCommon
  /\ InitAst

LayoutAppendInstruction ==
  /\ Fresh
  /\ pc = "idle"
  /\ CountInstructions(blocks, 1) < MaxInstructions
  /\ \E b \in 1..Len(blocks) : \E instruction \in LayoutOperands(Len(blocks)) :
       blocks' = append(blocks, b, instruction)
  /\ UNCHANGED <<initial, step_bound, result_copies, pc, steps, interp_vars, jit_vars>>
  /\ UNCHANGED ast_vars

\* the one call of vm.jit of this client
LayoutJitBegin == compiles = 0 /\ JitBegin

NextLayout ==
  \/ LayoutAppendInstruction
  \/ InterpretBegin
  \/ InterpretStep
  \/ InterpretTimeout
  \/ LayoutJitBegin
  \/ CompileEmit
  \/ CompileFixup
  \/ CompileCopy
  \/ CompileFinalize
  \/ NativeEnter
  \/ NativeRun
  \/ JitReturn

SpecLayout == InitLayout /\ [][NextLayout]_vars

(***************************************************************************)
(* A client that makes three blocks, appends control-flow instructions and *)
(* instructions that leave the switch, and runs the interpreter.           *)
(***************************************************************************)
FlowOperands ==
  {Exit, Increment, Jump(1), Jump(2), JumpConditional(2, 3), JumpConditional(3, 2)}

InitFlow ==
  /\ blocks = make_block(make_block(make_block(<<>>)))
  /\ initial = ZeroVM
  /\ step_bound = MaxSteps
  /\ result_copies = 0
  /\ InitCommon
  /\ InitAst

FlowAppendInstruction ==
  /\ Fresh
  /\ pc = "idle"
  /\ CountInstructions(blocks, 1) < MaxFlowInstructions
  /\ \E b \in 1..Len(blocks) : \E instruction \in FlowOperands :
       blocks' = append(blocks, b, instruction)
  /\ UNCHANGED <<initial, step_bound, result_copies, pc, steps, interp_vars, jit_vars>>
  /\ UNCHANGED ast_vars

NextFlow ==
  \/ FlowAppendInstruction
  \/ InterpretBegin
  \/ InterpretStep
  \/ InterpretTimeout

SpecFlow == InitFlow /\ [][NextFlow]_vars

\* a client that appends to the program between calls of Jit::compile
CompileBegin == compiles < MaxCompiles /\ JitBegin

NextRecompile ==
  \/ MakeBlock
  \/ AppendInstruction
  \/ CompileBegin
  \/ CompileEmit
  \/ CompileFixup
  \/ CompileCopy
  \/ CompileFinalize
  \/ ExecutableDropped

SpecRecompile == Init /\ [][NextRecompile]_vars

\* a client that makes its two blocks first and appends to them between calls
\* of Jit::compile
LayoutRecompileAppend ==
  /\ pc = "idle"
  /\ CountInstructions(blocks, 1) < MaxInstructions
  /\ \E b \in 1..Len(blocks) : \E instruction \in LayoutOperands(Len(blocks)) :
       blocks' = append(blocks, b, instruction)
  /\ UNCHANGED <<initial, step_bound, result_copies, pc, steps, interp_vars, jit_vars>>
  /\ UNCHANGED ast_vars

NextLayoutRecompile ==
  \/ LayoutRecompileAppend
  \/ CompileBegin
  \/ CompileEmit
  \/ CompileFixup
  \/ CompileCopy
  \/ CompileFinalize
  \/ ExecutableDropped

SpecLayoutRecompile == InitLayout /\ [][NextLayoutRecompile]_vars

(***************************************************************************)
(* The counting loop of main(): six blocks, the upper bound loaded in      *)
(* block 4.                                                                *)
(***************************************************************************)
\* the appends of one block, in order
RECURSIVE AppendAll(_, _, _)
AppendAll(bs, b, instructions) ==
  IF instructions = <<>> THEN bs
  ELSE AppendAll(append(bs, b, Head(instructions)), b, Tail(instructions))

SixBlocks == make_block(make_block(make_block(make_block(make_block(make_block(<<>>))))))

CountingLoop(n) ==
  LET b1 == AppendAll(SixBlocks, 1,
              <<Store(5), LoadImmediate(Zero64), SetLocal(0), Load(5),
                LoadImmediate(Zero64), Store(6), Jump(4)>>)
      b2 == AppendAll(b1, 2, <<Exit>>)
      b3 == AppendAll(b2, 3, <<LoadImmediate(Zero64), Jump(5)>>)
      b4 == AppendAll(b3, 4,
              <<GetLocal(0), Store(7), LoadImmediate(U64(n)), LessThan(7),
                JumpConditional(3, 6)>>)
      b5 == AppendAll(b4, 5,
              <<Store(6), GetLocal(0), Increment, SetLocal(0), Jump(4)>>)
  IN AppendAll(b5, 6, <<Load(6), Jump(2)>>)

\* instructions the loop dispatches for upper bound n, with room to spare
LoopStepBound(n) == 16 * (n + 1)

InitLoop ==
  /\ \E n \in 0..MaxLoopBound :
       /\ blocks = CountingLoop(n)
       /\ step_bound = LoopStepBound(n)
  /\ initial = ZeroVM
  /\ result_copies = 0
  /\ InitCommon
  /\ InitAst

NextLoop ==
  \/ InterpretBegin
  \/ InterpretStep

\* the interpreter loop keeps running until it is left
SpecLoop == InitLoop /\ [][NextLoop]_vars /\ WF_vars(NextLoop)

(***************************************************************************)
(* Long straight-line programs: one block of k LessThan instructions and   *)
(* an Exit, given to VM::jit.                                              *)
(***************************************************************************)
\* the program after make_block and k + 1 appends to the block
LongProgram(k) ==
  [make_block(<<>>) EXCEPT
     ![1].instructions = [i \in 1..(k + 1) |-> IF i <= k THEN LessThan(1) ELSE Exit]]

LongProgramLengths == {1, 2, MaxLongProgram - 1, MaxLongProgram}

InitLong ==
  /\ \E k \in LongProgramLengths :
       /\ blocks = LongProgram(k)
       /\ step_bound = k + 1
  /\ initial = FilledVM
  /\ result_copies \in 0..2
  /\ InitCommon
  /\ InitAst

NextLong ==
  \/ RunJitBegin
  \/ CompileEmit
  \/ CompileFixup
  \/ CompileCopy
  \/ CompileFinalize
  \/ NativeEnter
  \/ NativeRun
  \/ JitReturn

SpecLong == InitLong /\ [][NextLong]_vars

(***************************************************************************)
(* Programs given to VM::jit whose native code leaves the arrays or the    *)
(* region: operands behind the eight slots, a program whose code ends      *)
(* behind the region with an instruction across the region's end, and      *)
(* programs without code.                                                  *)
(***************************************************************************)
\* the programs: one block with an operand behind the arrays; one block of
\* 123 LessThan, 16 Increment, a Store and an Exit; no block; one empty block
WildPrograms ==
  {AppendAll(make_block(<<>>), 1, <<Increment, instruction, Store(3), Exit>>) :
     instruction \in {Store(r) : r \in NumRegisters..(NumRegisters + 2)}
                     \cup {Load(r) : r \in NumRegisters..(NumRegisters + 2)}
                     \cup {SetLocal(l) : l \in NumLocals..(NumLocals + 1)}
                     \cup {GetLocal(l) : l \in NumLocals..(NumLocals + 1)}}
  \cup {[make_block(<<>>) EXCEPT
            ![1].instructions = [i \in 1..141 |-> IF i <= 123 THEN LessThan(1)
                                                  ELSE IF i <= 139 THEN Increment
                                                  ELSE IF i = 140 THEN Store(2)
                                                  ELSE Exit]],
        <<>>, make_block(<<>>)}

\* a program without code runs through the zero bytes of the region
InitWild ==
  /\ blocks \in WildPrograms
  /\ step_bound = IF CountInstructions(blocks, 1) = 0 THEN RegionSize
                  ELSE Len(blocks[1].instructions)
  /\ initial = FilledVM
  /\ result_copies \in 0..2
  /\ InitCommon
  /\ InitAst

SpecWild == InitWild /\ [][NextLong]_vars

(***************************************************************************)
(* The tree interpreter (src/ast.h).  A node is a record with its type     *)
(* tag and fields; the environment is a function from names to int.  A     *)
(* call yields the value, the environment and how it ended: "ok", "assert" *)
(* (a failed assert aborts the process; the environment is the one at the  *)
(* abort), "trap" (signed overflow in a build that traps), "undefined" or  *)
(* "fuel" (a while loop was given up).  In a = b the right operand is      *)
(* evaluated before the left one (C++17).                                  *)
(***************************************************************************)
MaxInt32 == 2147483647   \* INT_MAX of the `int` the evaluator computes in
MinInt32 == -MaxInt32 - 1

\* a + b on int, wrapping as the two's complement addition does
Add32(a, b) ==
  IF b > 0 /\ a > MaxInt32 - b THEN (a - MaxInt32 - 1) + (b - MaxInt32 - 1)
  ELSE IF b < 0 /\ a < MinInt32 - b THEN (a + MaxInt32 + 1) + (b + MaxInt32 + 1)
  ELSE a + b

\* a + b does not fit int
Overflows32(a, b) ==
  \/ b > 0 /\ a > MaxInt32 - b
  \/ b < 0 /\ a < MinInt32 - b

Literal(value) == [type |-> "Literal", value |-> value]
Variable(name) == [type |-> "Variable", name |-> name]
AstAdd(left, right) == [type |-> "Add", left |-> left, right |-> right]
AstLessThan(left, right) == [type |-> "LessThan", left |-> left, right |-> right]
AstIncrement(variable) == [type |-> "Increment", variable |-> variable]
Assignment(name, value) == [type |-> "Assignment", name |-> name, value |-> value]
VariableDeclaration(name, vtype, initializer) ==
  [type |-> "VariableDeclaration", name |-> name, vtype |-> vtype,
   initializer |-> initializer]
Return(value) == [type |-> "Return", value |-> value]
Block(children) == [type |-> "Block", children |-> children]
IfElse(condition, body, else_body) ==
  [type |-> "IfElse", condition |-> condition, body |-> body, else_body |-> else_body]
While(condition, body) == [type |-> "While", condition |-> condition, body |-> body]
FunctionDeclaration(name, return_type, body) ==
  [type |-> "FunctionDeclaration", name |-> name, return_type |-> return_type,
   body |-> body]

Bound(env, name) == name \in DOMAIN env

\* variables[name] = v: std::unordered_map::operator[] inserts a missing key
Put(env, name, v) == [k \in DOMAIN env \cup {name} |-> IF k = name THEN v ELSE env[k]]

\* variables[name] read through operator[]: a missing key is inserted with 0
Touch(env, name) == IF Bound(env, name) THEN env ELSE Put(env, name, 0)

Ok(v, env) == [v |-> v, env |-> env, status |-> "ok"]
Abort(env) == [v |-> 0, env |-> env, status |-> "assert"]
OutOfFuel(env) == [v |-> 0, env |-> env, status |-> "fuel"]
Trap(env) == [v |-> 0, env |-> env, status |-> "trap"]
\* the call has run into undefined behaviour: nothing is known of what follows
Undefined(env) == [v |-> 0, env |-> env, status |-> "undefined"]

RECURSIVE interpret(_, _)
RECURSIVE BlockFrom(_, _, _, _)
RECURSIVE WhileFrom(_, _, _, _)

interpret_variable(variable, env) ==
  Ok(Touch(env, variable.name)[variable.name], Touch(env, variable.name))

interpret_literal(literal, env) == Ok(literal.value, env)

interpret_less_than(less_than_node, env) ==
  LET l == interpret(less_than_node.left, env)
  IN IF l.status # "ok" THEN l
     ELSE LET r == interpret(less_than_node.right, l.env)
          IN IF r.status # "ok" THEN r
             ELSE Ok(IF l.v < r.v THEN 1 ELSE 0, r.env)

\* interpret_variable_declaration without the assert: a bound name is overwritten
interpret_variable_declaration_unchecked(variable_declaration, env) ==
  LET r == interpret(variable_declaration.initializer, env)
  IN IF r.status # "ok" THEN r
     ELSE Ok(r.v, Put(r.env, variable_declaration.name, r.v))

interpret_variable_declaration(variable_declaration, env) ==
  IF Bound(env, variable_declaration.name) THEN Abort(env)
  ELSE LET r == interpret(variable_declaration.initializer, env)
       IN IF r.status # "ok" THEN r
          ELSE Ok(r.v, Put(r.env, variable_declaration.name, r.v))

\* variables[name]++: the old value is returned
interpret_increment(increment_node, env) ==
  LET e == Touch(env, increment_node.variable.name)
      old == e[increment_node.variable.name]
  IN IF Overflows32(old, 1) /\ overflow_traps THEN Trap(e)
     ELSE Ok(old, Put(e, increment_node.variable.name, Add32(old, 1)))

\* BlockFrom where a Return child ends the block with its value
BlockFromUnwinding(children, i, env, result) ==
  IF i > Len(children) THEN Ok(result, env)
  ELSE LET r == interpret(children[i], env)
       IN IF r.status # "ok" THEN r
          ELSE IF children[i].type = "Return" THEN r
          ELSE BlockFrom(children, i + 1, r.env, r.v)

\* the children from the i-th on; result is the value of the last one done
BlockFrom(children, i, env, result) ==
  IF i > Len(children) THEN Ok(result, env)
  ELSE LET r == interpret(children[i], env)
       IN IF r.status # "ok" THEN r
          ELSE BlockFrom(children, i + 1, r.env, r.v)

interpret_block(block, env) == BlockFrom(block.children, 1, env, 0)

\* the loop with k iterations left before it is given up
WhileFrom(while_loop, env, result, k) ==
  LET c == interpret(while_loop.condition, env)
  IN IF c.status # "ok" THEN c
     ELSE IF c.v = 0 THEN Ok(result, c.env)
     ELSE IF k = 0 THEN OutOfFuel(c.env)
     ELSE LET b == interpret_block(while_loop.body, c.env)
          IN IF b.status # "ok" THEN b
             ELSE WhileFrom(while_loop, b.env, b.v, k - 1)

\* interpret_while as a do-while: the body runs once before the first test
interpret_do_while(while_loop, env) ==
  LET b == interpret_block(while_loop.body, env)
  IN IF b.status # "ok" THEN b
     ELSE WhileFrom(while_loop, b.env, b.v, MaxWhileIterations)

interpret_while(while_loop, env) == WhileFrom(while_loop, env, 0, MaxWhileIterations)

interpret_function_declaration(function_declaration, env) ==
  interpret_block(function_declaration.body, env)

\* interpret_assignment with the assert behind the evaluation of the value
interpret_assignment_late_assert(assignment, env) ==
  LET r == interpret(assignment.value, env)
  IN IF r.status # "ok" THEN r
     ELSE IF ~Bound(r.env, assignment.name) THEN Abort(r.env)
     ELSE Ok(r.v, Put(r.env, assignment.name, r.v))

interpret_assignment(assignment, env) ==
  IF ~Bound(env, assignment.name) THEN Abort(env)
  ELSE LET r == interpret(assignment.value, env)
       IN IF r.status # "ok" THEN r
          ELSE Ok(r.v, Put(r.env, assignment.name, r.v))

interpret_return(return_statement, env) == interpret(return_statement.value, env)

interpret_if_else(if_else, env) ==
  LET c == interpret(if_else.condition, env)
  IN IF c.status # "ok" THEN c
     ELSE IF c.v # 0 THEN interpret_block(if_else.body, c.env)
     ELSE interpret_block(if_else.else_body, c.env)

interpret_add(add, env) ==
  LET l == interpret(add.left, env)
  IN IF l.status # "ok" THEN l
     ELSE LET r == interpret(add.right, l.env)
          IN IF r.status # "ok" THEN r
             ELSE IF Overflows32(l.v, r.v) /\ overflow_traps THEN Trap(r.env)
             ELSE Ok(Add32(l.v, r.v), r.env)

\* the switch of AstInterpreter::interpret; assert(false) behind it.  The
\* type of a record here is the struct of the node.  Every struct but
\* Ast::Block sets Ast::type to its own enumerator; Ast::Block has no
\* constructor, so its tag is 0 (FunctionDeclaration) after make_unique and
\* indeterminate otherwise, and interpret() of a Block node casts it to
\* another struct.  Blocks are sound only where interpret_block is called on
\* them directly: as the body of a FunctionDeclaration, While or IfElse.
interpret(ast, env) ==
  CASE ast.type = "Variable" -> interpret_variable(ast, env)
    [] ast.type = "Literal" -> interpret_literal(ast, env)
    [] ast.type = "LessThan" -> interpret_less_than(ast, env)
    [] ast.type = "VariableDeclaration" -> interpret_variable_declaration(ast, env)
    [] ast.type = "Increment" -> interpret_increment(ast, env)
    [] ast.type = "While" -> interpret_while(ast, env)
    [] ast.type = "Block" -> Undefined(env)
    [] ast.type = "FunctionDeclaration" -> interpret_function_declaration(ast, env)
    [] ast.type = "Assignment" -> interpret_assignment(ast, env)
    [] ast.type = "Return" -> interpret_return(ast, env)
    [] ast.type = "IfElse" -> interpret_if_else(ast, env)
    [] ast.type = "Add" -> interpret_add(ast, env)
    [] OTHER -> Abort(env)

\* the function main() of src/main_ast.cpp builds, for the initializer n of `n`
Fibonacci(n) ==
  FunctionDeclaration("foo", "Void", Block(<<
    VariableDeclaration("n", "Int", Literal(n)),
    VariableDeclaration("i", "Int", Literal(0)),
    VariableDeclaration("t1", "Int", Literal(0)),
    VariableDeclaration("t2", "Int", Literal(1)),
    VariableDeclaration("t3", "Int", Literal(0)),
    While(AstLessThan(Variable("i"), Variable("n")),
          Block(<<Assignment("t3", AstAdd(Variable("t1"), Variable("t2"))),
                  Assignment("t1", Variable("t2")),
                  Assignment("t2", Variable("t3")),
                  AstIncrement(Variable("i"))>>)),
    Return(Variable("t1"))>>))

\* a node of a client's own subclass of Ast whose tag is none of the
\* enumerators of AstType, with the fields of a for loop
For(initializer, condition, step, body) ==
  [type |-> "For", initializer |-> initializer, condition |-> condition,
   step |-> step, body |-> body]

\* the nodes a client gives to interpret
AstInputs ==
  {Variable("x"), Variable("y"),
   AstAdd(Literal(1), Literal(2)),
   AstAdd(Literal(MaxInt32), Literal(1)),
   FunctionDeclaration("f", "Void",
     Block(<<Return(Literal(7)), AstIncrement(Variable("x"))>>)),
   FunctionDeclaration("f", "Void",
     Block(<<Return(Variable("x")), Assignment("x", Literal(3)), Literal(5)>>)),
   Block(<<Literal(1)>>),
   For(VariableDeclaration("i", "Int", Literal(0)),
       AstLessThan(Variable("i"), Literal(10)),
       AstIncrement(Variable("i")), Block(<<>>)),
   VariableDeclaration("x", "Int", Literal(1)),
   VariableDeclaration("y", "Int", Literal(2)),
   VariableDeclaration("z", "Int", Literal(MaxInt32)),
   VariableDeclaration("x", "Int", Variable("y")),
   VariableDeclaration("x", "Int", AstIncrement(Variable("y"))),
   Assignment("x", Literal(3)),
   Assignment("x", AstIncrement(Variable("y"))),
   Assignment("y", AstAdd(Variable("x"), Variable("y"))),
   AstIncrement(Variable("x")), AstIncrement(Variable("y")),
   AstIncrement(Variable("z")),
   Return(Variable("x")),
   FunctionDeclaration("f", "Void",
     Block(<<VariableDeclaration("x", "Int", Literal(1)),
             VariableDeclaration("y", "Int", Literal(2))>>)),
   FunctionDeclaration("f", "Void",
     Block(<<Variable("x"), VariableDeclaration("x", "Int", Literal(1))>>)),
   IfElse(AstLessThan(Variable("x"), Literal(2)),
          Block(<<Assignment("x", Literal(3))>>), Block(<<>>)),
   While(AstLessThan(Variable("x"), Literal(3)), Block(<<AstIncrement(Variable("x"))>>))}
  \cup {Fibonacci(n) : n \in 0..MaxFibN}

\* AstInterpreter::interpret(ast) called by a client; an abort ends the process
AstInterpret ==
  /\ ast_status \notin {"assert", "trap", "undefined"}
  /\ ast_calls < MaxAstCalls
  /\ \E ast \in AstInputs :
       LET r == interpret(ast, variables)
       IN /\ variables' = r.env
          /\ ast_result' = r.v
          /\ ast_status' = r.status
          /\ last_ast' = ast
  /\ pre_variables' = variables
  /\ ast_calls' = ast_calls + 1
  /\ UNCHANGED <<blocks, initial, step_bound, result_copies, pc, steps, interp_vars, jit_vars,
                 overflow_traps>>

\* signed overflow of int is undefined: the build wraps (two's complement
\* addition) or traps (-ftrapv)
InitTree ==
  /\ blocks = <<>>
  /\ initial = ZeroVM
  /\ step_bound = MaxSteps
  /\ result_copies = 0
  /\ InitCommon
  /\ variables = <<>>
  /\ ast_calls = 0
  /\ last_ast = [type |-> "None"]
  /\ pre_variables = <<>>
  /\ ast_result = 0
  /\ ast_status = "none"
  /\ overflow_traps \in BOOLEAN

SpecTree == InitTree /\ [][AstInterpret]_vars

(***************************************************************************)
(* Properties of the VM, its interpreter and the JIT.                      *)
(***************************************************************************)

\* C1: when the interpreter run of a program has dispatched an Exit and
\* finished, and VM::jit of the same program from the same initial arrays
\* has returned, the two register arrays and the two local arrays are equal.
C1_InterpreterAndJitAgree ==
  (interp_status = "done" /\ exit_seen /\ jit_status = "returned")
    => (vm_i.registers = vm_j.registers /\ vm_i.locals = vm_j.locals)

\* C2: once VM::interpret has dispatched an Exit, it dispatches no further
\* instruction and the arrays keep the values they had at the Exit.
C2_ExitHalts ==
  exit_seen => (after_exit = 0 /\ vm_i = exit_vm)

\* the upper bound N the counting loop loads in block 4
LoopUpperBound == blocks[4].instructions[3].value

\* the interpreter has left its loop behind the Exit of block 2, with N
\* increments done, locals[0] = N and registers[6] = 0
CountingLoopDone ==
  /\ interp_status = "done"
  /\ current_block = 2
  /\ instruction_index = 1
  /\ exit_seen
  /\ after_exit = 0
  /\ increments = LoopUpperBound
  /\ vm_i.locals[1] = LoopUpperBound
  /\ vm_i.registers[7] = Zero64

\* C3: from all-zero arrays the interpreter run of the counting loop with
\* upper bound N terminates behind the Exit of block 2 after exactly N
\* increments, with locals[0] = N and registers[6] = 0.
C3_CountingLoopTerminates == <>[]CountingLoopDone

C3_Witness ==
  /\ CountingLoopDone
  /\ LoopUpperBound = U64(MaxLoopBound)
  /\ vm_i.locals[1] # Zero64

\* C9: after phase 2 of Jit::compile the four bytes at every site S of every
\* block B's list hold B.offset - S - 4 as a little-endian 32-bit integer.
C9_FixupsPatched ==
  pc \in {"copy", "finalize", "enter"} =>
    \A b \in 1..Len(blocks) : \A j \in 1..Len(blocks[b].jumps_to_here) :
      LET S == blocks[b].jumps_to_here[j]
      IN Signed32At(buf, S) = blocks[b].offset - S - 4

\* C10: the executable region is never writable and executable at once.
C10_NeverWritableAndExecutable ==
  ~({"WRITE", "EXEC"} \subseteq executable.prot)

\* C11: whenever Jit::compile copies the emitted buffer, the region is at
\* least as long as the buffer, and no byte is ever written behind the end of
\* the region.
C11_RegionHoldsBuffer ==
  /\ pc = "copy" => Len(buf) <= executable.size
  /\ executable.overrun = 0

\* bytes of the x86-64 encoding of one VM instruction: REX.W mov with a
\* 32-bit displacement is 7 bytes, mov imm64 10, inc 3, cmp r,r 3, setl 3,
\* movzx 4, cmp imm8 4, jz rel32 6, jmp rel32 5, ret 1
EncodedLength(instruction) ==
  CASE instruction.type = "LoadImmediate" -> 10 + 7
    [] instruction.type \in {"Load", "Store", "SetLocal", "GetLocal"} -> 7 + 7
    [] instruction.type = "Increment" -> 7 + 3 + 7
    [] instruction.type = "LessThan" -> 7 + 7 + 3 + 3 + 4 + 7
    [] instruction.type = "Jump" -> 5
    [] instruction.type = "JumpConditional" -> 7 + 4 + 6 + 5
    [] instruction.type = "Exit" -> 1
    [] OTHER -> 0

RECURSIVE InstructionsLength(_, _)
\* encoded length of the first n instructions of a sequence
InstructionsLength(instructions, n) ==
  IF n = 0 THEN 0
  ELSE InstructionsLength(instructions, n - 1) + EncodedLength(instructions[n])

RECURSIVE CodeLengthBefore(_, _)
\* encoded length of the blocks before block b, in program order
CodeLengthBefore(bs, b) ==
  IF b <= 1 THEN 0
  ELSE CodeLengthBefore(bs, b - 1)
       + InstructionsLength(bs[b - 1].instructions, Len(bs[b - 1].instructions))

\* every fixup site of the program holds the displacement to its block
AllSitesPatched ==
  \A b \in 1..Len(blocks) : \A j \in 1..Len(blocks[b].jumps_to_here) :
    LET S == blocks[b].jumps_to_here[j]
    IN Signed32At(buf, S) = blocks[b].offset - S - 4

\* C12: once VM::jit has called the native code, every block has been
\* emitted, every fixup is patched, the region was given the buffer and
\* finalize() has returned from a successful mprotect; while the native code
\* runs the region is mapped read+execute; a compile that failed has entered
\* no code.
C12_EnteredOnlyWhenReady ==
  /\ executable.entered =>
       /\ Len(buf) = CodeLengthBefore(blocks, Len(blocks) + 1)
       /\ AllSitesPatched
       /\ executable.data = buf
       /\ executable.finalized
  /\ pc \in {"native", "return"} =>
       /\ executable.entered
       /\ executable.mapped
       /\ executable.prot = {"READ", "EXEC"}
  /\ executable.entered => pc \in {"native", "return", "crashed"} \/ jit_status = "returned"
  /\ jit_status = "error" => ~executable.entered

C12_Witness ==
  /\ pc = "native"
  /\ executable.entered
  /\ \E b \in 1..Len(blocks) : Len(blocks[b].jumps_to_here) > 0
  /\ Len(buf) > 5

\* C13: when Jit::compile has failed on an allocated region, control is back
\* at the caller with the error (the JIT is in none of its phases and the
\* process has not ended), the region was unmapped exactly once, none of its
\* code was entered and the VM's arrays are as they were.
C13_CompileFailureReleases ==
  (jit_status = "error" /\ executable.size # 0) =>
    /\ pc \notin {"emit", "fixup", "copy", "finalize", "enter", "native", "return",
                  "crashed", "terminated"}
    /\ ~executable.mapped
    /\ executable.unmaps = 1
    /\ ~executable.entered
    /\ vm_j = initial

\* a Jump, JumpConditional or Exit
IsTerminator(instruction) == instruction.type \in {"Jump", "JumpConditional", "Exit"}

\* C14: every block of a program that the interpreter or the JIT works on
\* ends in a Jump, JumpConditional or Exit.
C14_BlocksEndInTerminator ==
  pc \in {"interpret", "emit"} =>
    \A b \in 1..Len(blocks) :
      /\ Len(blocks[b].instructions) > 0
      /\ IsTerminator(blocks[b].instructions[Len(blocks[b].instructions)])

\* C17: VM::interpret starts at instruction 0 of the first block; after phase
\* 1 of Jit::compile the first block's offset is 0 and every block's offset
\* is the encoded length of the blocks before it; VM::jit calls offset 0.
C17_EntryAndOffsets ==
  /\ (pc = "interpret" /\ steps = 0) => (current_block = 1 /\ instruction_index = 0)
  /\ pc \in {"fixup", "copy", "finalize", "enter", "native", "return"} =>
       /\ Len(blocks) >= 1 => blocks[1].offset = 0
       /\ \A b \in 1..Len(blocks) : blocks[b].offset = CodeLengthBefore(blocks, b)
  /\ (pc = "native" /\ steps = 0 /\ Len(blocks) >= 1) => cpu.rip = blocks[1].offset

C17_Witness ==
  /\ pc = "native"
  /\ steps = 0
  /\ Len(blocks) = 2
  /\ blocks[2].offset > 0
  /\ cpu.rip = 0

\* C19: when VM::jit has returned from the code of the program
\* [LessThan r, Exit], registers[0] is 1 if registers[r] < registers[0] held
\* on entry as unsigned 64-bit integers and 0 if not, as in VM::interpret,
\* and every other register and local is as on entry.
C19_NativeLessThanUnsigned ==
  (/\ jit_status = "returned"
   /\ Len(blocks) >= 1
   /\ Len(blocks[1].instructions) = 2
   /\ blocks[1].instructions[1].type = "LessThan"
   /\ blocks[1].instructions[2] = Exit) =>
    LET r == blocks[1].instructions[1].lhs
        expected == Bool64(ULess64(initial.registers[r + 1], initial.registers[1]))
    IN /\ vm_j = [initial EXCEPT !.registers[1] = expected]
       /\ vm_j = Execute(initial, blocks[1].instructions[1])

RECURSIVE NativeRunFor(_, _, _, _)
\* the processor after n instructions of the code in data, or where it
\* returned or faulted before
NativeRunFor(c, data, vm, n) ==
  IF n = 0 THEN [cpu |-> c, vm |-> vm, status |-> "running"]
  ELSE LET r == NativeStep(c, data, vm, NoWild)
       IN IF r.status # "running" THEN r
          ELSE NativeRunFor(r.cpu, data, r.vm, n - 1)

\* accumulator values: zero, one, bit 63 only, bit 32 only
AccumulatorValues == {Zero64, One64, SignBit64, <<0, 0, 0, 0, 1, 0, 0, 0>>}

\* the code of the JumpConditional at index i of block b starts at offset p:
\* its jz placeholder (p + 13) is on the false block's list, its jmp
\* placeholder (p + 18) on the true block's list, and run from p with any
\* accumulator the code arrives at the offset of the block the interpreter
\* continues in, with the arrays untouched
JumpConditionalLowered(b, i) ==
  LET instruction == blocks[b].instructions[i]
      p == blocks[b].offset + InstructionsLength(blocks[b].instructions, i - 1)
      false_list == blocks[instruction.false_block].jumps_to_here
      true_list == blocks[instruction.true_block].jumps_to_here
  IN /\ \E j \in 1..Len(false_list) : false_list[j] = p + 13
     /\ \E j \in 1..Len(true_list) : true_list[j] = p + 18
     /\ \A v \in AccumulatorValues :
          LET vm == [initial EXCEPT !.registers[1] = v]
              r == NativeRunFor([NoCpu EXCEPT !.rip = p], buf, vm,
                                IF v = Zero64 THEN 3 ELSE 4)
          IN /\ r.status = "running"
             /\ r.vm = vm
             /\ r.cpu.rip = blocks[NextBlock(vm, b, instruction)].offset

\* C20: once Jit::compile has patched the buffer, the code of every
\* JumpConditional of the program has its two placeholders on the false and
\* the true block's lists and continues at the true block's offset when
\* registers[0] is not zero and at the false block's offset when it is zero,
\* as VM::interpret chooses; also when both arms are the same block.
C20_JumpConditionalLowering ==
  pc \in {"copy", "finalize", "enter"} =>
    \A b \in 1..Len(blocks) : \A i \in 1..Len(blocks[b].instructions) :
      blocks[b].instructions[i].type = "JumpConditional" => JumpConditionalLowered(b, i)

\* C21: in VM::interpret a dispatched Jump or JumpConditional continues at
\* instruction 0 of its target block (the true block for a nonzero
\* accumulator, the false block for zero), so nothing behind it in the source
\* block runs next; every other instruction continues at the next index of
\* the same block; and when the index has passed the last instruction of the
\* current block the loop exits there: nothing more is dispatched, the arrays
\* and the position stay as they are, no following block is entered.
C21_JumpsAndBlockEnd ==
  [][/\ pc = "interpret" =>
          LET instructions == blocks[current_block].instructions
          IN IF instruction_index >= Len(instructions)
             THEN /\ pc' = "idle"
                  /\ interp_status' = "done"
                  /\ steps' = steps
                  /\ vm_i' = vm_i
                  /\ current_block' = current_block
                  /\ instruction_index' = instruction_index
             ELSE (steps' = steps + 1 /\ pc' = "interpret") =>
                    LET instruction == instructions[instruction_index + 1]
                    IN CASE instruction.type = "Jump" ->
                              /\ current_block' = instruction.target_block
                              /\ instruction_index' = 0
                              /\ vm_i' = vm_i
                         [] instruction.type = "JumpConditional" ->
                              /\ current_block' = IF vm_i.registers[1] = Zero64
                                                  THEN instruction.false_block
                                                  ELSE instruction.true_block
                              /\ instruction_index' = 0
                              /\ vm_i' = vm_i
                         [] OTHER ->
                              /\ current_block' = current_block
                              /\ instruction_index' = instruction_index + 1
     /\ interp_status = "done" =>
          /\ interp_status' = "done"
          /\ vm_i' = vm_i
          /\ current_block' = current_block
          /\ instruction_index' = instruction_index
          /\ increments' = increments
    ]_vars

\* block 0 jumps to block 1 past an Increment of its own; the run has walked
\* past the end of block 1 and stopped there, before the Increment of block 2:
\* of the three Increments only the one of block 1 was dispatched
C21_Witness ==
  /\ Len(blocks) = 3
  /\ blocks[1].instructions = <<Jump(2), Increment>>
  /\ blocks[2].instructions = <<Increment>>
  /\ blocks[3].instructions = <<Increment>>
  /\ interp_status = "done"
  /\ current_block = 2
  /\ instruction_index = 1
  /\ steps = 2
  /\ increments = One64
  /\ vm_i.registers[1] = One64

\* the placeholders of the instruction at index i of block b, each a pair of
\* its offset in the buffer and the block it branches to: the code of the
\* instruction starts at p; a Jump has its placeholder behind the jmp opcode,
\* a JumpConditional one behind mov, cmp and the jz opcode for the false block
\* and one behind the following jmp opcode for the true block
BranchSites(b, i) ==
  LET instruction == blocks[b].instructions[i]
      p == CodeLengthBefore(blocks, b) + InstructionsLength(blocks[b].instructions, i - 1)
  IN CASE instruction.type = "Jump" -> {<<p + 1, instruction.target_block>>}
       [] instruction.type = "JumpConditional" ->
            {<<p + 13, instruction.false_block>>, <<p + 18, instruction.true_block>>}
       [] OTHER -> {}

\* the placeholders of the program
AllBranchSites ==
  UNION {UNION {BranchSites(b, i) : i \in 1..Len(blocks[b].instructions)} :
           b \in 1..Len(blocks)}

\* the offsets of the placeholders that branch to block t
SitesTo(t) == {s[1] : s \in {x \in AllBranchSites : x[2] = t}}

\* C24: phase 1 of Jit::compile leaves 0xdeadbeef at every placeholder of
\* every Jump and JumpConditional and adds to each block's list exactly the
\* placeholders that branch to the block, each once; from phase 2 on no
\* placeholder of the buffer holds 0xdeadbeef any more, nor does the region
\* the buffer is copied to.  This also holds when the program was compiled
\* before and appended to since.
C24_PlaceholdersResolved ==
  [][/\ (pc = "emit" /\ pc' = "fixup") =>
          /\ \A s \in AllBranchSites : Signed32At(buf', s[1]) = DeadBeef
          /\ \A t \in 1..Len(blocks) :
               LET old == blocks[t].jumps_to_here
                   new == blocks'[t].jumps_to_here
               IN /\ Len(new) - Len(old) = Cardinality(SitesTo(t))
                  /\ SubSeq(new, 1, Len(old)) = old
                  /\ {new[j] : j \in (Len(old) + 1)..Len(new)} = SitesTo(t)
     /\ pc' \in {"copy", "finalize", "enter"} =>
          \A s \in AllBranchSites :
            /\ Signed32At(buf', s[1]) # DeadBeef
            /\ (pc' # "copy" /\ s[1] + 4 <= Len(executable'.data)) =>
                 Signed32At(executable'.data, s[1]) # DeadBeef
    ]_vars

\* the second compile of a program that was appended to since the first: the
\* Jump of block 1 has moved from offset 0 to 1, block 0's list holds the
\* site of the first compile and the new one, and the new one is patched
C24_Witness ==
  /\ compiles = 2
  /\ pc = "enter"
  /\ blocks[1].instructions = <<Exit>>
  /\ blocks[2].instructions = <<Jump(1)>>
  /\ blocks[1].jumps_to_here = <<1, 2>>
  /\ Signed32At(executable.data, 2) = 0 - 2 - 4

\* the program a client builds anew with the same blocks and instructions: no
\* compile has recorded anything on its blocks
FreshlyBuilt(bs) ==
  [b \in 1..Len(bs) |-> [BasicBlock EXCEPT !.instructions = bs[b].instructions]]

\* the buffer of Jit::compile after phase 2 for a program nothing was compiled of
FreshBuffer(bs) ==
  LET a == EmitProgram(FreshlyBuilt(bs))
  IN PatchProgram(a.buf, a.blocks)

\* C23: the buffer Jit::compile has after phase 2 is the buffer it has for a
\* freshly built program with the same blocks and instructions, whatever
\* appends and compiles the program has been through before.
C23_CompileDependsOnProgramOnly ==
  pc \in {"copy", "finalize", "enter"} => buf = FreshBuffer(blocks)

(***************************************************************************)
(* Properties of the tree interpreter.                                     *)
(***************************************************************************)
RECURSIVE FibFrom(_, _, _)
FibFrom(k, a, b) == IF k = 0 THEN a ELSE FibFrom(k - 1, b, a + b)

\* the n-th Fibonacci number: F(0) = 0, F(1) = 1
FibNumber(n) == FibFrom(n, 0, 1)

\* the last call ran the Fibonacci function on an empty environment
FibonacciCalled ==
  /\ \E n \in 0..MaxFibN : last_ast = Fibonacci(n)
  /\ DOMAIN pre_variables = {}

\* C4: on an empty environment the Fibonacci function for n terminates and
\* returns the n-th Fibonacci number, which is t1, with i = n at the end;
\* the result is 6765 for n = 20.
C4_Fibonacci ==
  FibonacciCalled =>
    LET n == last_ast.body.children[1].initializer.value
    IN /\ ast_status = "ok"
       /\ ast_result = FibNumber(n)
       /\ variables["t1"] = ast_result
       /\ variables["i"] = n
       /\ (n = 20 => ast_result = 6765)

C4_Witness ==
  /\ FibonacciCalled
  /\ last_ast = Fibonacci(20)
  /\ ast_status = "ok"
  /\ ast_result = 6765
  /\ variables["i"] = 20

\* the value of an operand expression of the inputs in environment env, where
\* a name that is not bound reads as 0
RECURSIVE ValueIn(_, _)
ValueIn(expr, env) ==
  CASE expr.type = "Literal" -> expr.value
    [] expr.type = "Variable" -> IF Bound(env, expr.name) THEN env[expr.name] ELSE 0
    [] expr.type = "Increment" ->
         IF Bound(env, expr.variable.name) THEN env[expr.variable.name] ELSE 0
    [] expr.type = "Add" -> Add32(ValueIn(expr.left, env), ValueIn(expr.right, env))

\* C5: a VariableDeclaration of a bound name aborts on its assert; of a name
\* that is not bound it binds the name to the initializer's value and returns
\* the stored value.
C5_VariableDeclaration ==
  last_ast.type = "VariableDeclaration" =>
    IF Bound(pre_variables, last_ast.name)
    THEN ast_status = "assert" /\ variables = pre_variables
    ELSE /\ ast_status = "ok"
         /\ Bound(variables, last_ast.name)
         /\ variables[last_ast.name] = ValueIn(last_ast.initializer, pre_variables)
         /\ ast_result = variables[last_ast.name]

C5_Witness ==
  /\ last_ast = VariableDeclaration("x", "Int", AstIncrement(Variable("y")))
  /\ Bound(pre_variables, "x")
  /\ Bound(pre_variables, "y")
  /\ ast_status = "assert"

\* C6: an Assignment to a name that is not bound aborts on its assert before
\* the value is evaluated and binds nothing; to a bound name it stores the
\* value of the expression under the name and returns the stored value.
C6_Assignment ==
  last_ast.type = "Assignment" =>
    IF ~Bound(pre_variables, last_ast.name)
    THEN ast_status = "assert" /\ variables = pre_variables
    ELSE /\ ast_status = "ok"
         /\ variables[last_ast.name] = ValueIn(last_ast.value, pre_variables)
         /\ ast_result = variables[last_ast.name]

C6_Witness ==
  /\ last_ast = Assignment("x", AstIncrement(Variable("y")))
  /\ ~Bound(pre_variables, "x")
  /\ Bound(pre_variables, "y")
  /\ ast_status = "assert"
  /\ variables = pre_variables

\* C7: an Increment of a name that is not bound fails and creates no binding.
C7_IncrementUndeclaredFails ==
  (last_ast.type = "Increment" /\ ~Bound(pre_variables, last_ast.variable.name))
    => (ast_status = "assert" /\ ~Bound(variables, last_ast.variable.name))

\* C8: evaluating a Variable node leaves the environment as it was, so a read
\* of a name followed by the declaration of that name does not fail.
C8_VariableReadKeepsEnvironment ==
  /\ last_ast.type = "Variable" => variables = pre_variables
  /\ (/\ last_ast = FunctionDeclaration("f", "Void",
                      Block(<<Variable("x"), VariableDeclaration("x", "Int", Literal(1))>>))
      /\ ~Bound(pre_variables, "x"))
       => ast_status = "ok"

\* C15: on an environment without i, the For node of
\* `for (int i = 0; i < 10; i++) {}` is evaluated: it returns 0 and leaves
\* i = 10, as the declaration of i followed by the while loop does.
C15_ForLoop ==
  (last_ast.type = "For" /\ ~Bound(pre_variables, "i")) =>
    /\ ast_status = "ok"
    /\ ast_result = 0
    /\ Bound(variables, "i")
    /\ variables["i"] = 10

\* C16: Add of two literals that are not negative returns their sum exactly,
\* also when the sum is above the largest 32-bit signed integer.
C16_AddIs64Bit ==
  (/\ last_ast.type = "Add"
   /\ last_ast.left.type = "Literal" /\ last_ast.right.type = "Literal"
   /\ last_ast.left.value >= 0 /\ last_ast.right.value >= 0) =>
    /\ ast_status = "ok"
    /\ ast_result >= last_ast.left.value
    /\ ast_result - last_ast.left.value = last_ast.right.value

\* C22: an Increment of a bound variable returns the value the variable had
\* before the call and leaves the variable exactly one greater; no name is
\* added and every other variable keeps its value.
C22_IncrementPostValue ==
  (last_ast.type = "Increment" /\ Bound(pre_variables, last_ast.variable.name)) =>
    LET name == last_ast.variable.name
    IN /\ ast_status = "ok"
       /\ ast_result = pre_variables[name]
       /\ variables[name] > pre_variables[name]
       /\ variables[name] - pre_variables[name] = 1
       /\ DOMAIN variables = DOMAIN pre_variables
       /\ \A other \in DOMAIN pre_variables \ {name} :
            variables[other] = pre_variables[other]

\* the function with the given children as its body
Function(children) == FunctionDeclaration("f", "Void", Block(children))

\* the last call ran a function whose body has a Return as its first child
\* and further children
ReturnThenMore ==
  /\ last_ast.type = "FunctionDeclaration"
  /\ Len(last_ast.body.children) >= 2
  /\ last_ast.body.children[1].type = "Return"

\* C18: a Return does not unwind.  In the body Block(Return(7), x++) the
\* increment is still done and the result is the old x, not 7; in
\* Block(Return(x), x = 3, 5) the assignment is still done and the result
\* is 5, the value of the last child.
C18_ReturnDoesNotUnwind ==
  /\ last_ast = Function(<<Return(Literal(7)), AstIncrement(Variable("x"))>>) =>
       /\ ast_status = "ok"
       /\ ast_result = ValueIn(Variable("x"), pre_variables)
       /\ variables["x"] = ast_result + 1
  /\ last_ast = Function(<<Return(Variable("x")), Assignment("x", Literal(3)), Literal(5)>>) =>
       /\ ast_status = "ok"
       /\ ast_result = 5
       /\ variables["x"] = 3
  /\ ReturnThenMore => ast_status = "ok"

C18_Witness ==
  /\ ReturnThenMore
  /\ last_ast.body.children[2].type = "Increment"
  /\ Bound(pre_variables, "x")
  /\ ast_status = "ok"
  /\ ast_result # 7
  /\ variables["x"] = pre_variables["x"] + 1

====
